---- MODULE Spec2Model ----
(***************************************************************************)
(* Model of deployStack (src/unnamed/part_002, lines 317-517): the         *)
(* orchestrator that classifies a CloudFormation stack, drives one change  *)
(* set through create / describe / execute-or-delete, and polls the stack  *)
(* to completion while calling the optional waiter.                        *)
(*                                                                         *)
(* The orchestrator is one async function.  pc names the await it is       *)
(* suspended at; each action performs the awaited operation (the remote    *)
(* call and its answer, the prompt, the end of a waiter callback) and then *)
(* runs the synchronous code up to the next await.  A waiter callback is   *)
(* handed its context when the orchestrator suspends on it.  The remote    *)
(* service, the prompt and the waiter are the environment: what they       *)
(* answer is a nondeterministic choice.  A local variable the code does    *)
(* not read again is reset to its initial value.                           *)
(*                                                                         *)
(* A stack status is the sequence of the words between its underscores     *)
(* ("UPDATE_ROLLBACK_COMPLETE" is <<"UPDATE","ROLLBACK","COMPLETE">>), so  *)
(* that String.endsWith is computed and not assumed.                       *)
(*                                                                         *)
(* Two more programs of the package have their own variables and their own *)
(* specifications at the end of the module: the template-parameter loop of *)
(* the command line program (src/src/cli.ts, SpecCli) and the event log    *)
(* reporter (src/unnamed/part_001, SpecLog).  Each specification keeps the *)
(* variables of the other programs at their initial values.                *)
(***************************************************************************)
EXTENDS Integers, Sequences, FiniteSets, TLC

\* ------------------------------------------------------------------ bounds
\* describeStacks calls after which the remote stack no longer reports a
\* status ending in _IN_PROGRESS
MaxStackPolls == 3
\* describeChangeSet calls after which the change set has left
\* CREATE_IN_PROGRESS
MaxChangeSetPolls == 2
\* describeChangeSet calls after which the service sends no NextToken
MaxPages == 3

\* ------------------------------------------------------- remote data types
\* CloudFormation StackStatus enumeration
StackStatuses ==
  { <<"CREATE", "IN", "PROGRESS">>, <<"CREATE", "FAILED">>,
    <<"CREATE", "COMPLETE">>,
    <<"ROLLBACK", "IN", "PROGRESS">>, <<"ROLLBACK", "FAILED">>,
    <<"ROLLBACK", "COMPLETE">>,
    <<"DELETE", "IN", "PROGRESS">>, <<"DELETE", "FAILED">>,
    <<"DELETE", "COMPLETE">>,
    <<"UPDATE", "IN", "PROGRESS">>,
    <<"UPDATE", "COMPLETE", "CLEANUP", "IN", "PROGRESS">>,
    <<"UPDATE", "COMPLETE">>, <<"UPDATE", "FAILED">>,
    <<"UPDATE", "ROLLBACK", "IN", "PROGRESS">>,
    <<"UPDATE", "ROLLBACK", "FAILED">>,
    <<"UPDATE", "ROLLBACK", "COMPLETE", "CLEANUP", "IN", "PROGRESS">>,
    <<"UPDATE", "ROLLBACK", "COMPLETE">>,
    <<"REVIEW", "IN", "PROGRESS">>,
    <<"IMPORT", "IN", "PROGRESS">>, <<"IMPORT", "COMPLETE">>,
    <<"IMPORT", "ROLLBACK", "IN", "PROGRESS">>,
    <<"IMPORT", "ROLLBACK", "FAILED">>,
    <<"IMPORT", "ROLLBACK", "COMPLETE">> }

\* ChangeSetStatus values: the two the code tests for and one other
ChangeSetStatuses == { "CREATE_IN_PROGRESS", "CREATE_COMPLETE", "FAILED" }

\* ExecutionStatus values: the one the code tests for and two others
ExecutionStatuses == { "AVAILABLE", "UNAVAILABLE", "OBSOLETE" }

\* the StatusReason the service gives for an empty change set (line 426)
NoChangesReason ==
  "The submitted information didn't contain changes. Submit different information to create a change set."

\* StatusReason values: the "no changes" text and some other text
StatusReasons == { NoChangesReason, "Template error" }

\* a page of Changes in a describeChangeSet response
ChangePages == { <<"c1">>, <<"c2">> }

\* NextToken of a describeChangeSet response; "" is no token
NextTokens == { "", "token" }

\* String.prototype.endsWith(suffix) where suffix is "_" followed by the
\* words of suf joined by "_": the words of suf are the last words of s and
\* at least one word precedes them
EndsWith(s, suf) ==
  /\ Len(s) > Len(suf)
  /\ SubSeq(s, Len(s) - Len(suf) + 1, Len(s)) = suf

\* Stack.Outputs is undefined
NoOutputs == << <<"undefined">> >>

\* Stack.Outputs values, each output the pair of its OutputKey and
\* OutputValue: undefined, the empty list, and a list of two
OutputLists == { NoOutputs, <<>>, << <<"k1", "v1">>, <<"k2", "v2">> >> }

\* the Outputs describeStacks gives with a status: any of OutputLists with
\* the two statuses after which lines 469-475 read them, undefined with the
\* others, where nothing reads them
OutputsWith(status) ==
  IF status \in { <<"CREATE", "COMPLETE">>, <<"UPDATE", "COMPLETE">> }
  THEN OutputLists
  ELSE { NoOutputs }

\* a Stack returned by describeStacks, with the outputs given
StackWith(status, outputs) ==
  [exists |-> TRUE, StackStatus |-> status, Outputs |-> outputs]

\* a Stack returned by describeStacks, without Outputs
Stack(status) == StackWith(status, NoOutputs)

\* the null that getStack returns for "Stack with id ... does not exist"
NullStack == [exists |-> FALSE, StackStatus |-> <<>>, Outputs |-> NoOutputs]

\* no getStack() result is held
NoStack ==
  [exists |-> FALSE, StackStatus |-> <<"undefined">>, Outputs |-> NoOutputs]

\* no describeChangeSet output is held
NoChangeSet ==
  [Status |-> "undefined", ExecutionStatus |-> "undefined",
   StatusReason |-> "undefined", Changes |-> <<>>, NextToken |-> ""]

\* ---------------------------------------------------------------- state
VARIABLES
  pc,         \* the await deployStack is suspended at, or "done"
  waiter,     \* whether options.waiter was given
  stack,      \* the stack the last getStack() returned, until the next
              \* remote command is sent
  type,       \* const type = await getChangeSetType(); "" until decided
  reason,     \* the reason argument of the running / last waitUntilDone
  changeSet,  \* let changeSet: the last describeChangeSet output, until
              \* the pagination loop is left
  changes,    \* let changes (line 329); Undefined until line 436
  answer,     \* what prompt("Deploy?") resolved to: "none", "yes", "no"
  report,     \* the context of the waiter callback being awaited
  calls,      \* history: the remote commands sent, in order, a run of
              \* the same describe command recorded once
  stackPolls, \* history: describeStacks calls so far, up to MaxStackPolls
  changeSetPolls, \* history: describeChangeSet calls so far, up to MaxPages
  waits,      \* history: the reasons waitUntilDone was called with
  available,  \* history: a describeChangeSet output had ExecutionStatus
              \* AVAILABLE
  reported,   \* history: the list given to logger.log("Changes:\n%O", ...)
              \* at line 448, Undefined before
  prompts,    \* history: the messages prompt was called with
  replied,    \* history: the error the last remote call was rejected with,
              \* NoError when it was fulfilled
  inflight,   \* the operations deployStack has started and that have not
              \* settled, each named by the pc that awaits it
  ticks,      \* history of the waitUntilDone call in hand or last returned:
              \* how many times getStack(), waiter.progress and
              \* waiter.complete were called in it
  terminal,   \* what the default prompt (createPrompt) did in the prompt
              \* call that has just resolved: NoTerminal when the prompt
              \* option was given, and at every other step
  request,    \* the input of the CreateChangeSetCommand in flight, with the
              \* capabilities option it was built from
  logs,       \* history: what logger.log was called with, in order
  pages,      \* history: Changes and NextToken of the describeChangeSet
              \* outputs read by lines 436-446, in order
  result      \* how the promise settled

\* the command line program (src/src/cli.ts, main, lines 117-131)
VARIABLES
  cliPc,      \* where main is: "notStarted", "while" (the test of line
              \* 119), "body" (lines 120-128), "check" (line 131),
              \* "checked" (line 131 returned) or "thrown"
  args,       \* options[argsSymbol]: the positional arguments left, each a
              \* sequence of characters
  parameters, \* const parameters (line 117)
  optionKeys, \* Object.keys(options) when line 131 is reached
  cliError    \* how the message of the OptionError main threw begins, ""
              \* when it threw none

cliVars == <<cliPc, args, parameters, optionKeys, cliError>>

\* the event log reporter (src/unnamed/part_001, createEventLogWaiter)
VARIABLES
  logPc,           \* "notCreated", "idle" (no callback running) or
                   \* "describeStackEvents" (printNewEvents awaits a page)
  now,             \* the clock, in milliseconds, from 1 on
  created,         \* history: the clock when createEventLogWaiter ran
  stackEvents,     \* the stack's events, oldest first: the Timestamp of
                   \* each; an event is named by its place in this list
  lastEventPrinted, \* let lastEventPrinted (line 5)
  firstEventRead,  \* let firstEventRead (line 24), 0 for undefined
  lastEventRead,   \* let lastEventRead (line 25), 0 for undefined
  nextEventToken,  \* the place of the newest event of the page asked for
  caller,          \* the callback that called printNewEvents
  polled,          \* history: how many events the stack had when
                   \* printNewEvents was last called
  printed,         \* history: the events console.log was called for at
                   \* lines 75-83, in order
  lastLine         \* history: the last line written to the console

logVars == <<logPc, now, created, stackEvents, lastEventPrinted,
             firstEventRead, lastEventRead, nextEventToken, caller, polled,
             printed, lastLine>>

vars == <<pc, waiter, stack, type, reason, changeSet, changes, answer,
          report, calls, stackPolls, changeSetPolls, waits, available,
          reported, prompts, replied, inflight, ticks, terminal, request, logs,
          pages,
          result, cliVars, logVars>>

\* main of the command line program has not been started
CliNotStarted ==
  /\ cliPc = "notStarted"
  /\ args = <<>>
  /\ parameters = <<>>
  /\ optionKeys = {}
  /\ cliError = ""

\* createEventLogWaiter has not been called
LogNotCreated ==
  /\ logPc = "notCreated"
  /\ now = 1
  /\ created = 0
  /\ stackEvents = <<>>
  /\ lastEventPrinted = 0
  /\ firstEventRead = 0
  /\ lastEventRead = 0
  /\ nextEventToken = 0
  /\ caller = ""
  /\ polled = 0
  /\ printed = <<>>
  /\ lastLine = ""

\* the describe commands, which the code sends in polling loops
Polls == { "DescribeStacks", "DescribeChangeSet" }

\* calls after command c was sent
Sent(c) ==
  IF c \in Polls /\ calls # <<>> /\ calls[Len(calls)] = c
  THEN calls
  ELSE Append(calls, c)

\* number of times command c was sent (a run of polls counts once)
Count(c) == Cardinality({ i \in 1..Len(calls) : calls[i] = c })

Min(a, b) == IF a < b THEN a ELSE b

\* the StackName option
stackName == "my-stack"

\* no error: the remote call was fulfilled
NoError == [name |-> "", message |-> <<>>]

\* the error describeStacks rejects with when the stack does not exist
\* (name and message as lines 509-511 expect them)
StackNotFound ==
  [name |-> "ValidationError",
   message |-> <<"Stack with id ", stackName, " does not exist">>]

\* the errors a remote call can be rejected with
RemoteErrors ==
  { StackNotFound,
    [name |-> "ValidationError", message |-> <<"Template format error">>],
    [name |-> "Throttling", message |-> <<"Rate exceeded">>] }

\* the promise deployStack returned is not settled
Pending == [kind |-> "pending", stackDetails |-> NoStack,
            type |-> "", changeSetDetails |-> NoChangeSet,
            error |-> NoError]

\* an error thrown by client.send left deployStack: its promise is rejected
\* with that error
Rejected(e) == [Pending EXCEPT !.kind = "rejected", !.error = e]

\* the async function returned (resolves undefined)
Returned == [Pending EXCEPT !.kind = "returned"]

\* new InvalidStatusBeforeUpdateStackError(stackDetails)
InvalidStatusBeforeUpdateStackError(stackDetails) ==
  [Pending EXCEPT !.kind = "InvalidStatusBeforeUpdateStackError",
                  !.stackDetails = stackDetails]

\* new InvalidCompleteStatusStackError(stackDetails, type)
InvalidCompleteStatusStackError(stackDetails, t) ==
  [Pending EXCEPT !.kind = "InvalidCompleteStatusStackError",
                  !.stackDetails = stackDetails, !.type = t]

\* new ChangeSetNotAvailableError(changeSetDetails)
ChangeSetNotAvailableError(changeSetDetails) ==
  [Pending EXCEPT !.kind = "ChangeSetNotAvailableError",
                  !.changeSetDetails = changeSetDetails]

\* reading .StackStatus of null (line 465 after the non-null assertion)
TypeError == [Pending EXCEPT !.kind = "TypeError"]

\* the value of let changes before it is assigned
Undefined == <<"undefined">>

\* no waiter callback is being awaited
NoReport == [kind |-> "none", reason |-> "", stackName |-> "",
             stack |-> NoStack, changes |-> Undefined]

\* the waiter callbacks of lines 493 and 496 called without await
AwaitNotCallbacks(settled, next) ==
  (inflight \ (IF settled \in {"progress", "complete"} THEN {} ELSE {settled}))
    \cup (IF next = "done" THEN {} ELSE {next})

\* every operation is awaited: deployStack runs on only when the operation
\* it awaits has settled, and then starts the next one (none once it has
\* returned or thrown)
Await(settled, next) ==
  (inflight \ {settled}) \cup (IF next = "done" THEN {} ELSE {next})

\* what getKey() can resolve to: the key pressed, as a string
Keys == { "y", "Y", "n", "\r" }

\* the default prompt was not called
NoTerminal ==
  [used |-> FALSE, isTTY |-> FALSE, read |-> <<>>, written |-> <<>>,
   answer |-> FALSE]

\* createPrompt answering true for every key but "n", as the "[Y/n]" it
\* writes suggests
CreatePromptDefaultYes(isTTY, message, key) ==
  IF ~isTTY
  THEN [used |-> TRUE, isTTY |-> FALSE, read |-> <<>>, written |-> <<>>,
        answer |-> TRUE]
  ELSE [used |-> TRUE, isTTY |-> TRUE, read |-> <<key>>,
        written |-> << <<message, " [Y/n] ">>, <<"\n">> >>,
        answer |-> (key # "n")]

\* createPrompt(stdin, stdout)(message) (lines 519-533) when stdin.isTTY is
\* isTTY and getKey() resolves to key: what it reads, what it writes to
\* stdout, and what it resolves to
CreatePrompt(isTTY, message, key) ==
  IF ~isTTY
  THEN [used |-> TRUE, isTTY |-> FALSE, read |-> <<>>, written |-> <<>>,
        answer |-> TRUE]
  ELSE [used |-> TRUE, isTTY |-> TRUE, read |-> <<key>>,
        written |-> << <<message, " [Y/n] ">>, <<"\n">> >>,
        answer |-> (key = "y")]

\* what await prompt("Deploy?") can give: the prompt option answers
\* anything, the default prompt of line 319 answers as createPrompt does
PromptResults ==
  { [NoTerminal EXCEPT !.answer = yes] : yes \in BOOLEAN }
    \cup { CreatePrompt(FALSE, "Deploy?", "") }
    \cup { CreatePrompt(TRUE, "Deploy?", key) : key \in Keys }

\* the capabilities option is undefined
NoCapabilities == <<"undefined">>

\* values of the capabilities option: undefined, the empty list, lists
CapabilitiesOptions ==
  { NoCapabilities, <<>>, <<"CAPABILITY_IAM">>,
    <<"CAPABILITY_NAMED_IAM", "CAPABILITY_AUTO_EXPAND">> }

\* lines 382-384 left out: the option is passed as given
NormalizeNothing(capabilities) == capabilities

\* lines 382-384: if (capabilities && capabilities.length === 0)
\* capabilities = undefined
Normalize(capabilities) ==
  IF capabilities # NoCapabilities /\ Len(capabilities) = 0
  THEN NoCapabilities
  ELSE capabilities

\* no CreateChangeSetCommand is in flight
NoRequest ==
  [ChangeSetType |-> "", capabilities |-> NoCapabilities,
   Capabilities |-> NoCapabilities]

\* lines 382-399 when getChangeSetType has returned: the
\* CreateChangeSetCommand is built from the type and the capabilities
\* option and sent
CreateIssued ==
  IF pc' = "createChangeSet"
  THEN \E capabilities \in CapabilitiesOptions :
         request' = [ChangeSetType |-> type', capabilities |-> capabilities,
                     Capabilities |-> Normalize(capabilities)]
  ELSE request' = NoRequest

\* one logger.log(format, ...args) call
Entry(format, values) == [format |-> format, args |-> values]

\* no waitUntilDone call has polled yet
NoTicks == [polls |-> 0, progress |-> 0, complete |-> 0]

Init ==
  /\ pc = "getStack"
  /\ waiter \in BOOLEAN
  /\ stack = NoStack
  /\ type = ""
  /\ reason = ""
  /\ changeSet = NoChangeSet
  /\ changes = Undefined
  /\ answer = "none"
  /\ calls = <<>>
  /\ stackPolls = 0
  /\ changeSetPolls = 0
  /\ waits = {}
  /\ available = FALSE
  /\ reported = Undefined
  /\ prompts = <<>>
  /\ replied = NoError
  /\ inflight = {"getStack"}
  /\ ticks = NoTicks
  /\ terminal = NoTerminal
  /\ request = NoRequest
  /\ logs = <<>>
  /\ pages = <<>>
  /\ report = NoReport
  /\ result = Pending
  /\ CliNotStarted
  /\ LogNotCreated

\* ------------------------------------------------------------ environment
\* what the next client.send(DescribeStacksCommand) can answer: a stack
\* (res.Stacks[0]) or a rejection
DescribeStacksReplies ==
  LET stacks ==
        UNION { { StackWith(s, o) : o \in OutputsWith(s) } : s \in StackStatuses }
      bounded ==
        IF stackPolls < MaxStackPolls
        THEN stacks
        ELSE { r \in stacks : ~EndsWith(r.StackStatus, <<"IN", "PROGRESS">>) }
  IN  { [stack |-> r, error |-> NoError] : r \in bounded }
        \cup { [stack |-> NoStack, error |-> e] : e \in RemoteErrors }

\* getStack() without its catch: every rejection is rethrown
GetStackRethrows(reply) ==
  [threw |-> reply.error # NoError, stack |-> reply.stack,
   error |-> reply.error]

\* getStack() testing only e.name in its catch
GetStackAnyValidation(reply) ==
  IF reply.error = NoError
  THEN [threw |-> FALSE, stack |-> reply.stack, error |-> NoError]
  ELSE IF reply.error.name = "ValidationError"
  THEN [threw |-> FALSE, stack |-> NullStack, error |-> reply.error]
  ELSE [threw |-> TRUE, stack |-> NoStack, error |-> reply.error]

\* getStack() (lines 500-516) on that answer: it returns the stack, returns
\* null for the "does not exist" ValidationError, and rethrows any other
\* error; error is what client.send rejected with
GetStack(reply) ==
  IF reply.error = NoError
  THEN [threw |-> FALSE, stack |-> reply.stack, error |-> NoError]
  ELSE IF /\ reply.error.name = "ValidationError"
          /\ reply.error.message
               = <<"Stack with id ", stackName, " does not exist">>
  THEN [threw |-> FALSE, stack |-> NullStack, error |-> reply.error]
  ELSE [threw |-> TRUE, stack |-> NoStack, error |-> reply.error]

\* the outcomes of the next getStack() call
GetStackResults == { GetStack(reply) : reply \in DescribeStacksReplies }

\* what the next describeChangeSet call can return
DescribeChangeSetResults ==
  LET all == [Status : ChangeSetStatuses, ExecutionStatus : ExecutionStatuses,
              StatusReason : StatusReasons, Changes : ChangePages,
              NextToken : NextTokens]
  IN  { r \in all :
          /\ changeSetPolls + 1 >= MaxChangeSetPolls
               => r.Status # "CREATE_IN_PROGRESS"
          /\ changeSetPolls + 1 >= MaxPages => r.NextToken = "" }

\* the describeStacks call of getStack() is sent and answered
PollStack ==
  /\ calls' = Sent("DescribeStacks")
  /\ stackPolls' = Min(stackPolls + 1, MaxStackPolls)

\* a describeChangeSet call is sent and answered with cs
PollChangeSet(cs) ==
  /\ calls' = Sent("DescribeChangeSet")
  /\ changeSetPolls' =
       Min(changeSetPolls + 1,
           IF MaxPages > MaxChangeSetPolls THEN MaxPages
           ELSE MaxChangeSetPolls)
  /\ available' = (available \/ cs.ExecutionStatus = "AVAILABLE")

\* --------------------------------------------------------- getChangeSetType
\* getChangeSetType without the DELETE_COMPLETE test of line 339
DispositionNoDeleted(st) ==
  IF ~st.exists \/ st.StackStatus = <<"REVIEW", "IN", "PROGRESS">>
  THEN "CREATE"
  ELSE IF \/ st.StackStatus = <<"CREATE", "FAILED">>
          \/ st.StackStatus = <<"ROLLBACK", "COMPLETE">>
  THEN "REPLACE"
  ELSE IF EndsWith(st.StackStatus, <<"COMPLETE">>)
  THEN "UPDATE"
  ELSE IF EndsWith(st.StackStatus, <<"IN", "PROGRESS">>)
  THEN "WAIT"
  ELSE "THROW"

\* getChangeSetType returning from the in-progress branch without the wait
\* of line 374
DispositionNoWait(st) ==
  IF ~st.exists \/ st.StackStatus = <<"REVIEW", "IN", "PROGRESS">>
  THEN "CREATE"
  ELSE IF st.StackStatus = <<"DELETE", "COMPLETE">>
  THEN "CREATE"
  ELSE IF \/ st.StackStatus = <<"CREATE", "FAILED">>
          \/ st.StackStatus = <<"ROLLBACK", "COMPLETE">>
  THEN "REPLACE"
  ELSE IF EndsWith(st.StackStatus, <<"COMPLETE">>)
  THEN "UPDATE"
  ELSE IF EndsWith(st.StackStatus, <<"IN", "PROGRESS">>)
  THEN "UPDATE"
  ELSE "THROW"

\* getChangeSetType comparing with CREATE_COMPLETE and UPDATE_COMPLETE
\* where line 361 tests the suffix
DispositionExactComplete(st) ==
  IF ~st.exists \/ st.StackStatus = <<"REVIEW", "IN", "PROGRESS">>
  THEN "CREATE"
  ELSE IF st.StackStatus = <<"DELETE", "COMPLETE">>
  THEN "CREATE"
  ELSE IF \/ st.StackStatus = <<"CREATE", "FAILED">>
          \/ st.StackStatus = <<"ROLLBACK", "COMPLETE">>
  THEN "REPLACE"
  ELSE IF \/ st.StackStatus = <<"CREATE", "COMPLETE">>
          \/ st.StackStatus = <<"UPDATE", "COMPLETE">>
  THEN "UPDATE"
  ELSE IF EndsWith(st.StackStatus, <<"IN", "PROGRESS">>)
  THEN "WAIT"
  ELSE "THROW"

\* getChangeSetType testing the suffix "_FAILED" where line 345 compares
\* with CREATE_FAILED
DispositionAnyFailed(st) ==
  IF ~st.exists \/ st.StackStatus = <<"REVIEW", "IN", "PROGRESS">>
  THEN "CREATE"
  ELSE IF st.StackStatus = <<"DELETE", "COMPLETE">>
  THEN "CREATE"
  ELSE IF \/ EndsWith(st.StackStatus, <<"FAILED">>)
          \/ st.StackStatus = <<"ROLLBACK", "COMPLETE">>
  THEN "REPLACE"
  ELSE IF EndsWith(st.StackStatus, <<"COMPLETE">>)
  THEN "UPDATE"
  ELSE IF EndsWith(st.StackStatus, <<"IN", "PROGRESS">>)
  THEN "WAIT"
  ELSE "THROW"

\* getChangeSetType testing includes("_COMPLETE") where line 361 tests
\* endsWith("_COMPLETE")
DispositionIncludesComplete(st) ==
  IF ~st.exists \/ st.StackStatus = <<"REVIEW", "IN", "PROGRESS">>
  THEN "CREATE"
  ELSE IF st.StackStatus = <<"DELETE", "COMPLETE">>
  THEN "CREATE"
  ELSE IF \/ st.StackStatus = <<"CREATE", "FAILED">>
          \/ st.StackStatus = <<"ROLLBACK", "COMPLETE">>
  THEN "REPLACE"
  ELSE IF \E i \in 1..Len(st.StackStatus) : st.StackStatus[i] = "COMPLETE"
  THEN "UPDATE"
  ELSE IF EndsWith(st.StackStatus, <<"IN", "PROGRESS">>)
  THEN "WAIT"
  ELSE "THROW"

\* getChangeSetType calling waitUntilDone and itself again for every status
\* that is left, where line 378 throws
DispositionWaitsForAll(st) ==
  IF ~st.exists \/ st.StackStatus = <<"REVIEW", "IN", "PROGRESS">>
  THEN "CREATE"
  ELSE IF st.StackStatus = <<"DELETE", "COMPLETE">>
  THEN "CREATE"
  ELSE IF \/ st.StackStatus = <<"CREATE", "FAILED">>
          \/ st.StackStatus = <<"ROLLBACK", "COMPLETE">>
  THEN "REPLACE"
  ELSE IF EndsWith(st.StackStatus, <<"COMPLETE">>)
  THEN "UPDATE"
  ELSE "WAIT"

\* the branch getChangeSetType takes for the stack getStack() returned
\* (lines 334-378, in the order the code tests them)
Disposition(st) ==
  IF ~st.exists \/ st.StackStatus = <<"REVIEW", "IN", "PROGRESS">>
  THEN "CREATE"
  ELSE IF st.StackStatus = <<"DELETE", "COMPLETE">>
  THEN "CREATE"
  ELSE IF \/ st.StackStatus = <<"CREATE", "FAILED">>
          \/ st.StackStatus = <<"ROLLBACK", "COMPLETE">>
  THEN "REPLACE"
  ELSE IF EndsWith(st.StackStatus, <<"COMPLETE">>)
  THEN "UPDATE"
  ELSE IF EndsWith(st.StackStatus, <<"IN", "PROGRESS">>)
  THEN "WAIT"
  ELSE "THROW"

\* line 494 looping until a _COMPLETE status where the code loops while
\* the status ends with _IN_PROGRESS
StillInProgressUntilComplete(st) ==
  st.exists /\ ~EndsWith(st.StackStatus, <<"COMPLETE">>)

\* what getChangeSetType logs for the stack getStack() returned (lines
\* 335, 340, 348, 362-365 and 370-373; nothing before the throw of 378)
GetChangeSetTypeLogs(st) ==
  IF ~st.exists \/ st.StackStatus = <<"REVIEW", "IN", "PROGRESS">>
  THEN <<Entry("Stack does not exist, creating new...", <<>>)>>
  ELSE IF st.StackStatus = <<"DELETE", "COMPLETE">>
  THEN <<Entry("Stack was deleted, creating new...", <<>>)>>
  ELSE IF \/ st.StackStatus = <<"CREATE", "FAILED">>
          \/ st.StackStatus = <<"ROLLBACK", "COMPLETE">>
  THEN <<Entry("Stack failed to create, replacing...", <<>>)>>
  ELSE IF EndsWith(st.StackStatus, <<"COMPLETE">>)
  THEN <<Entry("Stack exists with status %O, updating existing...", <<>>)>>
  ELSE IF EndsWith(st.StackStatus, <<"IN", "PROGRESS">>)
  THEN <<Entry("Stack is in progress with status %O, waiting...", <<>>)>>
  ELSE <<>>

\* lines 469-475 logging the heading without the loop over the outputs
OutputsLogsHeadingOnly(st) ==
  IF st.Outputs # NoOutputs /\ Len(st.Outputs) > 0
  THEN <<Entry("Outputs:", <<>>)>>
  ELSE <<>>

\* what lines 469-475 log for the stack the EXECUTING wait returned
OutputsLogs(st) ==
  IF st.Outputs # NoOutputs /\ Len(st.Outputs) > 0
  THEN <<Entry("Outputs:", <<>>)>>
         \o [i \in 1..Len(st.Outputs) |-> Entry("  %O: %O", st.Outputs[i])]
  ELSE <<>>

\* the loop condition of waitUntilDone (line 494)
StillInProgress(st) ==
  st.exists /\ EndsWith(st.StackStatus, <<"IN", "PROGRESS">>)

\* line 355 comparing with DELETE_FAILED where the code compares with
\* DELETE_COMPLETE
DeleteFailedOnly(st) ==
  st.exists /\ st.StackStatus = <<"DELETE", "FAILED">>

\* line 355 without the null test: an absent stack fails it as well
DeleteFailedWhenAbsent(st) ==
  st.StackStatus # <<"DELETE", "COMPLETE">>

\* the test after waitUntilDone("DELETE_EXISTING") (line 355)
DeleteFailed(st) ==
  st.exists /\ st.StackStatus # <<"DELETE", "COMPLETE">>

\* line 465 testing the suffix "_COMPLETE" where the code compares with
\* `${type}_COMPLETE`
ExecuteFailedAnyComplete(st, t) ==
  ~EndsWith(st.StackStatus, <<"COMPLETE">>)

\* the test after waitUntilDone("EXECUTING") (line 465); st is not null
ExecuteFailed(st, t) ==
  st.StackStatus # <<t, "COMPLETE">>

\* lines 493, 496 passing the reason of the first wait of the run where the
\* code passes the reason of the wait in hand
ContextFirstReason(kind, st) ==
  [kind |-> kind,
   reason |-> IF "IN_PROGRESS_EXISTING" \in waits THEN "IN_PROGRESS_EXISTING"
              ELSE reason,
   stackName |-> stackName, stack |-> st, changes |-> changes]

\* lines 493, 496 without the changes property
ContextWithoutChanges(kind, st) ==
  [kind |-> kind, reason |-> reason, stackName |-> stackName, stack |-> st,
   changes |-> Undefined]

\* the context object handed to waiter.progress / waiter.complete
\* (lines 493, 496)
Context(kind, st) ==
  [kind |-> kind, reason |-> reason, stackName |-> stackName, stack |-> st,
   changes |-> changes]

\* waitUntilDone(r) is called: it suspends at its first sleep
StartWait(r) ==
  /\ reason' = r
  /\ waits' = waits \cup {r}
  /\ ticks' = NoTicks
  /\ pc' = "waitGetStack"

\* line 358 calling getChangeSetType() again, as line 376 does, where the
\* code returns "CREATE"
WaitReturnsReclassifies(st) ==
  CASE reason \in {"DELETE_EXISTING", "IN_PROGRESS_EXISTING"} ->
         /\ pc' = "getStack"
         /\ UNCHANGED <<type, result, logs>>
    [] reason = "EXECUTING" ->
         /\ pc' = "done"
         /\ type' = type
         /\ result' = IF ~st.exists THEN TypeError
                      ELSE IF ExecuteFailed(st, type)
                      THEN InvalidCompleteStatusStackError(st, type)
                      ELSE Returned
         /\ logs' = IF st.exists /\ ~ExecuteFailed(st, type)
                    THEN logs \o OutputsLogs(st)
                    ELSE logs

\* waitUntilDone returned st to its caller, which runs to its next await:
\*   DELETE_EXISTING       lines 355-358
\*   IN_PROGRESS_EXISTING  line 375, getChangeSetType() again
\*   EXECUTING             lines 464-475
WaitReturns(st) ==
  CASE reason = "DELETE_EXISTING" ->
         IF DeleteFailed(st)
         THEN /\ result' = InvalidCompleteStatusStackError(st, "DELETE")
              /\ pc' = "done"
              /\ type' = type
              /\ logs' = logs
         ELSE /\ type' = "CREATE"
              /\ pc' = "createChangeSet"
              /\ result' = result
              /\ logs' = logs
    [] reason = "IN_PROGRESS_EXISTING" ->
         /\ pc' = "getStack"
         /\ UNCHANGED <<type, result, logs>>
    [] reason = "EXECUTING" ->
         /\ pc' = "done"
         /\ type' = type
         /\ result' = IF ~st.exists THEN TypeError
                      ELSE IF ExecuteFailed(st, type)
                      THEN InvalidCompleteStatusStackError(st, type)
                      ELSE Returned
         /\ logs' = IF st.exists /\ ~ExecuteFailed(st, type)
                    THEN logs \o OutputsLogs(st)
                    ELSE logs

\* ---------------------------------------------------------------- actions
\* line 333: const stack = await getStack(), then lines 334-378
GetChangeSetType ==
  /\ terminal' = NoTerminal
  /\ UNCHANGED <<reported, prompts>>
  /\ UNCHANGED pages
  /\ pc = "getStack"
  /\ PollStack
  /\ \E g \in GetStackResults : \E r \in {g.stack} :
       /\ ~g.threw
       /\ replied' = g.error
       /\ stack' = r
       /\ logs' = logs \o GetChangeSetTypeLogs(r)
       /\ CASE Disposition(r) = "CREATE" ->
                 /\ type' = "CREATE"
                 /\ pc' = "createChangeSet"
                 /\ UNCHANGED <<reason, waits, ticks, result>>
            [] Disposition(r) = "REPLACE" ->
                 /\ pc' = "deleteStack"
                 /\ UNCHANGED <<type, reason, waits, ticks, result>>
            [] Disposition(r) = "UPDATE" ->
                 /\ type' = "UPDATE"
                 /\ pc' = "createChangeSet"
                 /\ UNCHANGED <<reason, waits, ticks, result>>
            [] Disposition(r) = "WAIT" ->
                 /\ StartWait("IN_PROGRESS_EXISTING")
                 /\ UNCHANGED <<type, result>>
            [] OTHER ->
                 /\ result' = InvalidStatusBeforeUpdateStackError(r)
                 /\ pc' = "done"
                 /\ UNCHANGED <<type, reason, waits, ticks>>
  /\ UNCHANGED <<waiter, changeSet, changes, answer, report, changeSetPolls,
                 available>>
  /\ CreateIssued
  /\ inflight' = Await(pc, pc')
  /\ UNCHANGED <<cliVars, logVars>>

\* lines 349-354: await client.send(DeleteStackCommand), then
\* waitUntilDone("DELETE_EXISTING") starts
DeleteStack ==
  /\ terminal' = NoTerminal
  /\ request' = NoRequest
  /\ UNCHANGED logs
  /\ UNCHANGED <<reported, prompts>>
  /\ replied' = NoError
  /\ UNCHANGED pages
  /\ pc = "deleteStack"
  /\ calls' = Sent("DeleteStack")
  /\ stack' = NoStack
  /\ StartWait("DELETE_EXISTING")
  /\ UNCHANGED <<waiter, type, changeSet, changes, answer, report,
                 stackPolls, changeSetPolls, available, result>>
  /\ inflight' = Await(pc, pc')
  /\ UNCHANGED <<cliVars, logVars>>

\* lines 490-494: await sleep(2000); stack = await getStack(); with a waiter
\* waiter.progress is called, without one the loop condition and, when it
\* fails, the return follow at once
WaitUntilDone ==
  /\ terminal' = NoTerminal
  /\ UNCHANGED <<reported, prompts>>
  /\ UNCHANGED pages
  /\ pc = "waitGetStack"
  /\ PollStack
  /\ \E g \in GetStackResults : \E r \in {g.stack} :
       /\ ~g.threw
       /\ replied' = g.error
       /\ stack' = r
       /\ IF waiter
          THEN /\ report' = Context("progress", r)
               /\ ticks' = [ticks EXCEPT !.polls = @ + 1, !.progress = @ + 1]
               /\ pc' = "progress"
               /\ UNCHANGED <<type, result, logs>>
          ELSE /\ report' = report
               /\ ticks' = [ticks EXCEPT !.polls = @ + 1]
               /\ IF StillInProgress(r)
                  THEN /\ pc' = "waitGetStack"
                       /\ UNCHANGED <<type, result, logs>>
                  ELSE WaitReturns(r)
  /\ UNCHANGED <<waiter, reason, changeSet, changes, answer, changeSetPolls,
                 waits, available>>
  /\ CreateIssued
  /\ inflight' = Await(pc, pc')
  /\ UNCHANGED <<cliVars, logVars>>

\* lines 493-496: waiter.progress(context) resolved; the loop condition,
\* and when it fails waiter.complete is called
WaiterProgress ==
  /\ terminal' = NoTerminal
  /\ request' = NoRequest
  /\ UNCHANGED logs
  /\ UNCHANGED <<reported, prompts>>
  /\ UNCHANGED replied
  /\ UNCHANGED pages
  /\ pc = "progress"
  /\ IF StillInProgress(stack)
     THEN /\ pc' = "waitGetStack"
          /\ report' = NoReport
          /\ ticks' = ticks
     ELSE /\ pc' = "complete"
          /\ report' = Context("complete", stack)
          /\ ticks' = [ticks EXCEPT !.complete = @ + 1]
  /\ UNCHANGED <<waiter, stack, type, reason, changeSet, changes, answer,
                 calls, stackPolls, changeSetPolls, waits, available,
                 result>>
  /\ inflight' = Await(pc, pc')
  /\ UNCHANGED <<cliVars, logVars>>

\* lines 496-497: waiter.complete(context) resolved; return stack
WaiterComplete ==
  /\ terminal' = NoTerminal
  /\ UNCHANGED <<reported, prompts>>
  /\ UNCHANGED replied
  /\ UNCHANGED ticks
  /\ UNCHANGED pages
  /\ pc = "complete"
  /\ report' = NoReport
  /\ WaitReturns(stack)
  /\ UNCHANGED <<waiter, stack, reason, changeSet, changes, answer, calls,
                 stackPolls, changeSetPolls, waits, available>>
  /\ CreateIssued
  /\ inflight' = Await(pc, pc')
  /\ UNCHANGED <<cliVars, logVars>>

\* lines 389-409: await client.send(CreateChangeSetCommand)
CreateChangeSet ==
  /\ terminal' = NoTerminal
  /\ request' = NoRequest
  /\ UNCHANGED <<reported, prompts>>
  /\ replied' = NoError
  /\ UNCHANGED ticks
  /\ UNCHANGED pages
  /\ pc = "createChangeSet"
  /\ calls' = Sent("CreateChangeSet")
  /\ stack' = NoStack
  /\ pc' = "describeChangeSet"
  /\ logs' = logs \o <<Entry("Created change set %O", <<>>),
                        Entry("Review at %s", <<>>)>>
  /\ UNCHANGED <<waiter, type, reason, changeSet, changes, answer, report,
                 stackPolls, changeSetPolls, waits, available, result>>
  /\ inflight' = Await(pc, pc')
  /\ UNCHANGED <<cliVars, logVars>>

\* line 420 looping while ExecutionStatus is UNAVAILABLE
CreatingWhileUnavailable(cs) == cs.ExecutionStatus = "UNAVAILABLE"

\* the condition of the do-while of lines 412-420
Creating(cs) == cs.Status = "CREATE_IN_PROGRESS"

\* lines 423-427 comparing Status with CREATE_COMPLETE
NoChangesWrongStatus(cs) ==
  /\ cs.Status = "CREATE_COMPLETE"
  /\ cs.StatusReason = NoChangesReason

\* lines 423-427 without the StatusReason test
NoChangesAnyReason(cs) ==
  cs.Status = "FAILED"

\* the "no changes" test of lines 423-427
NoChanges(cs) ==
  /\ cs.Status = "FAILED"
  /\ cs.StatusReason = NoChangesReason

\* line 422 testing Status where the code tests ExecutionStatus
NotAvailableByStatus(cs) == cs.Status # "CREATE_COMPLETE"

\* line 422
NotAvailable(cs) == cs.ExecutionStatus # "AVAILABLE"

\* what a describeChangeSet output contributes to the change list
Page(cs) == [Changes |-> cs.Changes, NextToken |-> cs.NextToken]

\* line 445 assigning the page where the code pushes it
PushReplaces(list, page) == page

\* changes.push(...changeSet.Changes) (line 445)
Push(list, page) == list \o page

\* line 437 not looping: the prompt follows the first page
AfterPageNoLoop(cs) == "prompt"

\* the await that follows the pagination loop's condition (line 437)
AfterPage(cs) == IF cs.NextToken # "" THEN "nextPage" ELSE "prompt"

\* lines 448-450 when the pagination loop is left with the list collected:
\* logger.log("Changes:\n%O", changes), then prompt("Deploy?") is called
LoopLeft(next, list) ==
  IF next = "prompt"
  THEN /\ reported' = list
       /\ logs' = Append(logs, Entry("Changes:\n%O", list))
       /\ prompts' = Append(prompts, "Deploy?")
  ELSE UNCHANGED <<reported, logs, prompts>>

\* let changeSet after a further page cs was assigned to it: nothing reads
\* it once the pagination loop is left
Kept(cs) == IF cs.NextToken # "" THEN cs ELSE NoChangeSet

\* lines 412-437: one turn of the do-while (sleep(1000), describeChangeSet)
\* and, once Status has left CREATE_IN_PROGRESS, lines 422-437
DescribeChangeSet ==
  /\ terminal' = NoTerminal
  /\ request' = NoRequest
  /\ replied' = NoError
  /\ UNCHANGED ticks
  /\ pc = "describeChangeSet"
  /\ \E cs \in DescribeChangeSetResults :
       /\ PollChangeSet(cs)
       /\ IF Creating(cs)
          THEN /\ pc' = "describeChangeSet"
               /\ changeSet' = cs
               /\ UNCHANGED <<changes, pages, reported, prompts, logs,
                              result>>
          ELSE IF NotAvailable(cs)
          THEN IF NoChanges(cs)
               THEN /\ pc' = "deleteChangeSet"
                    /\ changeSet' = cs
                    /\ logs' = logs \o <<Entry("No changes", <<>>),
                                          Entry("Deleting change set...", <<>>)>>
                    /\ UNCHANGED <<changes, pages, reported, prompts, result>>
               ELSE /\ result' = ChangeSetNotAvailableError(cs)
                    /\ pc' = "done"
                    /\ changeSet' = cs
                    /\ UNCHANGED <<changes, pages, reported, prompts, logs>>
          ELSE /\ changes' = cs.Changes
               /\ pages' = <<Page(cs)>>
               /\ changeSet' = cs
               /\ pc' = AfterPage(cs)
               /\ LoopLeft(AfterPage(cs), cs.Changes)
               /\ UNCHANGED result
  /\ UNCHANGED <<waiter, stack, type, reason, answer, report, stackPolls,
                 waits>>
  /\ inflight' = Await(pc, pc')
  /\ UNCHANGED <<cliVars, logVars>>

\* lines 437-448: one turn of the pagination loop
NextPage ==
  /\ terminal' = NoTerminal
  /\ request' = NoRequest
  /\ replied' = NoError
  /\ UNCHANGED ticks
  /\ pc = "nextPage"
  /\ \E cs \in DescribeChangeSetResults :
       /\ PollChangeSet(cs)
       /\ changeSet' = Kept(cs)
       /\ changes' = Push(changes, cs.Changes)
       /\ pages' = Append(pages, Page(cs))
       /\ pc' = AfterPage(cs)
       /\ LoopLeft(AfterPage(cs), Push(changes, cs.Changes))
  /\ UNCHANGED <<waiter, stack, type, reason, answer, report, stackPolls,
                 waits, result>>
  /\ inflight' = Await(pc, pc')
  /\ UNCHANGED <<cliVars, logVars>>

\* line 478 logging the text of line 455
AfterPromptLogExecuting(yes) == Entry("Executing change set...", <<>>)

\* what is logged after the prompt answered: line 455 before
\* executeChangeSet is sent, line 478 in deleteChangeSet()
AfterPromptLog(yes) ==
  IF yes THEN Entry("Executing change set...", <<>>)
  ELSE Entry("Deleting change set...", <<>>)

\* line 450 without the negation
AfterPromptInverted(yes) ==
  IF yes THEN "deleteChangeSet" ELSE "executeChangeSet"

\* the await that follows the test of the prompt's answer (line 450)
AfterPrompt(yes) == IF yes THEN "executeChangeSet" ELSE "deleteChangeSet"

\* lines 450-455: await prompt("Deploy?")
Prompt ==
  /\ request' = NoRequest
  /\ UNCHANGED <<reported, prompts>>
  /\ UNCHANGED replied
  /\ UNCHANGED ticks
  /\ UNCHANGED pages
  /\ pc = "prompt"
  /\ \E p \in PromptResults : \E yes \in {p.answer} :
       /\ terminal' = [p EXCEPT !.answer = FALSE]
       /\ answer' = IF yes THEN "yes" ELSE "no"
       /\ pc' = AfterPrompt(yes)
       /\ logs' = Append(logs, AfterPromptLog(yes))
  /\ changeSet' = NoChangeSet
  /\ UNCHANGED <<waiter, stack, type, reason, changes, report,
                 calls, stackPolls, changeSetPolls, waits, available,
                 result>>
  /\ inflight' = Await(pc, pc')
  /\ UNCHANGED <<cliVars, logVars>>

\* deleteChangeSet() logging without sending the command of lines 479-484
DeleteChangeSetNotSent ==
  /\ terminal' = NoTerminal
  /\ request' = NoRequest
  /\ UNCHANGED logs
  /\ UNCHANGED <<reported, prompts>>
  /\ replied' = NoError
  /\ pc = "deleteChangeSet"
  /\ result' = Returned
  /\ pc' = "done"
  /\ UNCHANGED <<waiter, stack, type, reason, changeSet, changes, answer,
                 report, calls, stackPolls, changeSetPolls, waits, available,
                 ticks, pages>>
  /\ inflight' = Await(pc, pc')
  /\ UNCHANGED <<cliVars, logVars>>

\* lines 477-485, then the return of line 433 or 452
DeleteChangeSet ==
  /\ terminal' = NoTerminal
  /\ request' = NoRequest
  /\ UNCHANGED logs
  /\ UNCHANGED <<reported, prompts>>
  /\ replied' = NoError
  /\ UNCHANGED ticks
  /\ UNCHANGED pages
  /\ pc = "deleteChangeSet"
  /\ calls' = Sent("DeleteChangeSet")
  /\ result' = Returned
  /\ pc' = "done"
  /\ UNCHANGED <<waiter, stack, type, reason, changeSet, changes, answer,
                 report, stackPolls, changeSetPolls, waits, available>>
  /\ inflight' = Await(pc, pc')
  /\ UNCHANGED <<cliVars, logVars>>

\* lines 456-464: await client.send(ExecuteChangeSetCommand), then
\* waitUntilDone("EXECUTING") starts
ExecuteChangeSet ==
  /\ terminal' = NoTerminal
  /\ request' = NoRequest
  /\ UNCHANGED logs
  /\ UNCHANGED <<reported, prompts>>
  /\ replied' = NoError
  /\ UNCHANGED pages
  /\ pc = "executeChangeSet"
  /\ calls' = Sent("ExecuteChangeSet")
  /\ StartWait("EXECUTING")
  /\ UNCHANGED <<waiter, stack, type, changeSet, changes, answer, report,
                 stackPolls, changeSetPolls, available, result>>
  /\ inflight' = Await(pc, pc')
  /\ UNCHANGED <<cliVars, logVars>>

Next ==
  \/ GetChangeSetType
  \/ DeleteStack
  \/ WaitUntilDone
  \/ WaiterProgress
  \/ WaiterComplete
  \/ CreateChangeSet
  \/ DescribeChangeSet
  \/ NextPage
  \/ Prompt
  \/ DeleteChangeSet
  \/ ExecuteChangeSet

\* runs in which every remote call and every collaborator callback resolves
Spec == Init /\ [][Next]_vars

\* the same runs, in which moreover every awaited operation settles: the
\* remote calls are answered, the delays elapse, the prompt and the waiter
\* callbacks resolve, and the continuation of the await then runs
SpecLive == Spec /\ WF_vars(Next)

\* ----------------------------------------------------- remote calls failing
\* line 514: getStack() rethrows what describeStacks was rejected with;
\* nothing in getChangeSetType, waitUntilDone or deployStack catches it
GetStackThrows ==
  /\ terminal' = NoTerminal
  /\ request' = NoRequest
  /\ UNCHANGED logs
  /\ UNCHANGED <<reported, prompts>>
  /\ pc \in {"getStack", "waitGetStack"}
  /\ PollStack
  /\ \E g \in GetStackResults :
       /\ g.threw
       /\ replied' = g.error
       /\ result' = Rejected(g.error)
  /\ pc' = "done"
  /\ UNCHANGED <<waiter, stack, type, reason, changeSet, changes, answer,
                 report, changeSetPolls, waits, available, ticks, pages>>
  /\ inflight' = Await(pc, pc')
  /\ UNCHANGED <<cliVars, logVars>>

\* the command client.send is given at each of the other remote calls
Command(p) ==
  CASE p = "deleteStack" -> "DeleteStack"
    [] p = "createChangeSet" -> "CreateChangeSet"
    [] p \in {"describeChangeSet", "nextPage"} -> "DescribeChangeSet"
    [] p = "deleteChangeSet" -> "DeleteChangeSet"
    [] p = "executeChangeSet" -> "ExecuteChangeSet"

\* one of the client.send calls of lines 349, 389, 414, 438, 456 and 479 is
\* rejected: no try surrounds them, so the error leaves deployStack
SendThrows ==
  /\ terminal' = NoTerminal
  /\ request' = NoRequest
  /\ UNCHANGED logs
  /\ UNCHANGED <<reported, prompts>>
  /\ pc \in {"deleteStack", "createChangeSet", "describeChangeSet",
              "nextPage", "deleteChangeSet", "executeChangeSet"}
  /\ calls' = Sent(Command(pc))
  /\ \E e \in RemoteErrors :
       /\ replied' = e
       /\ result' = Rejected(e)
  /\ pc' = "done"
  /\ UNCHANGED <<waiter, stack, type, reason, changeSet, changes, answer,
                 report, stackPolls, changeSetPolls, waits, available, ticks,
                 pages>>
  /\ inflight' = Await(pc, pc')
  /\ UNCHANGED <<cliVars, logVars>>

NextFail ==
  \/ GetChangeSetType
  \/ DeleteStack
  \/ WaitUntilDone
  \/ WaiterProgress
  \/ WaiterComplete
  \/ CreateChangeSet
  \/ DescribeChangeSet
  \/ NextPage
  \/ Prompt
  \/ DeleteChangeSet
  \/ ExecuteChangeSet
  \/ GetStackThrows
  \/ SendThrows

\* runs in which remote calls may be rejected
SpecFail == Init /\ [][NextFail]_vars

\* ------------------------------------------------------------------ claims
\* the words a status ends with when it is an in-progress status
InProgress == <<"IN", "PROGRESS">>

\* this step is getChangeSetType answering: stack' is what it observed
Classified == pc = "getStack" /\ pc' # "getStack"

\* this step ends waitUntilDone(r): stack' is the snapshot it returns
WaitEnds(r) ==
  /\ reason = r
  /\ pc \in {"waitGetStack", "complete"}
  /\ pc' \notin {"waitGetStack", "progress", "complete"}

\* the remote commands that change something
Mutating ==
  { "DeleteStack", "CreateChangeSet", "ExecuteChangeSet", "DeleteChangeSet" }

\* no mutating command has been sent
NothingMutated == \A i \in 1..Len(calls) : calls[i] \notin Mutating

\* C1: when the first stack state getChangeSetType observes is absent,
\* REVIEW_IN_PROGRESS or DELETE_COMPLETE, it answers CREATE at once: the
\* only remote command sent so far is that describeStacks, no waitUntilDone
\* was called, and the next await is createChangeSet.
C1_FreshCreates ==
  [][ ( /\ Classified
        /\ stackPolls = 0
        /\ \/ ~stack'.exists
           \/ stack'.StackStatus = <<"REVIEW", "IN", "PROGRESS">>
           \/ stack'.StackStatus = <<"DELETE", "COMPLETE">> )
      => ( /\ type' = "CREATE"
           /\ pc' = "createChangeSet"
           /\ calls' = <<"DescribeStacks">>
           /\ waits' = {}
           /\ result' = Pending ) ]_vars

C1_Witness ==
  /\ pc = "createChangeSet"
  /\ stack = Stack(<<"DELETE", "COMPLETE">>)
  /\ type = "CREATE"
  /\ calls = <<"DescribeStacks">>
  /\ waits = {}

\* C2: a stack classified with status CREATE_FAILED or ROLLBACK_COMPLETE
\* leads to the deleteStack await; that await sends deleteStack (the only
\* one of the run) and starts the DELETE_EXISTING wait; when that wait
\* returns a stack whose status is not DELETE_COMPLETE the run ends with
\* InvalidCompleteStatusStackError(stack, DELETE) and no createChangeSet
\* was sent, otherwise the type is CREATE and createChangeSet is next.
C2_DeadReplaced ==
  [][ /\ ( /\ Classified
           /\ stack'.exists
           /\ stack'.StackStatus \in
                { <<"CREATE", "FAILED">>, <<"ROLLBACK", "COMPLETE">> } )
         => ( /\ pc' = "deleteStack"
              /\ Count("DeleteStack")' = 0
              /\ type' = ""
              /\ result' = Pending )
      /\ pc = "deleteStack"
         => ( /\ calls' = Append(calls, "DeleteStack")
              /\ Count("DeleteStack")' = 1
              /\ reason' = "DELETE_EXISTING"
              /\ pc' = "waitGetStack" )
      /\ WaitEnds("DELETE_EXISTING")
         => ( /\ Count("DeleteStack")' = 1
              /\ Count("CreateChangeSet")' = 0
              /\ IF stack'.exists
                    /\ stack'.StackStatus # <<"DELETE", "COMPLETE">>
                 THEN /\ pc' = "done"
                      /\ result' =
                           InvalidCompleteStatusStackError(stack', "DELETE")
                 ELSE /\ pc' = "createChangeSet"
                      /\ type' = "CREATE"
                      /\ result' = Pending ) ]_vars

C2_Witness ==
  /\ pc = "createChangeSet"
  /\ type = "CREATE"
  /\ reason = "DELETE_EXISTING"
  /\ stack = Stack(<<"DELETE", "COMPLETE">>)
  /\ Count("DeleteStack") = 1

\* C3 as stated: a stack classified with any status ending in _IN_PROGRESS
\* starts an IN_PROGRESS_EXISTING wait, without a decision and without a
\* mutating command, and the end of that wait is a new classification.
C3_Original ==
  [][ /\ ( /\ Classified
           /\ stack'.exists
           /\ EndsWith(stack'.StackStatus, InProgress) )
         => ( /\ pc' = "waitGetStack"
              /\ reason' = "IN_PROGRESS_EXISTING"
              /\ "IN_PROGRESS_EXISTING" \in waits'
              /\ type' = ""
              /\ NothingMutated'
              /\ result' = Pending )
      /\ WaitEnds("IN_PROGRESS_EXISTING")
         => ( /\ pc' = "getStack"
              /\ ~StillInProgress(stack')
              /\ type' = ""
              /\ NothingMutated' ) ]_vars

\* C3: a stack classified with a status ending in _IN_PROGRESS other than
\* REVIEW_IN_PROGRESS starts an IN_PROGRESS_EXISTING wait, without a
\* decision and without a mutating command; that wait polls until the stack
\* is no longer in progress and its end is a new classification.
C3_BusyWaits ==
  [][ /\ ( /\ Classified
           /\ stack'.exists
           /\ EndsWith(stack'.StackStatus, InProgress)
           /\ stack'.StackStatus # <<"REVIEW", "IN", "PROGRESS">> )
         => ( /\ pc' = "waitGetStack"
              /\ reason' = "IN_PROGRESS_EXISTING"
              /\ "IN_PROGRESS_EXISTING" \in waits'
              /\ type' = ""
              /\ NothingMutated'
              /\ result' = Pending )
      /\ WaitEnds("IN_PROGRESS_EXISTING")
         => ( /\ pc' = "getStack"
              /\ ~StillInProgress(stack')
              /\ type' = ""
              /\ NothingMutated' ) ]_vars

C3_Witness ==
  /\ pc = "getStack"
  /\ reason = "IN_PROGRESS_EXISTING"
  /\ stack = Stack(<<"UPDATE", "ROLLBACK", "FAILED">>)
  /\ type = ""

\* C4: a stack classified with a status that ends in _COMPLETE and is
\* neither DELETE_COMPLETE nor ROLLBACK_COMPLETE gives type UPDATE with
\* createChangeSet next; the classification sends no deleteStack and calls
\* no waitUntilDone.
C4_ExistingUpdates ==
  [][ ( /\ Classified
        /\ stack'.exists
        /\ EndsWith(stack'.StackStatus, <<"COMPLETE">>)
        /\ stack'.StackStatus \notin
             { <<"DELETE", "COMPLETE">>, <<"ROLLBACK", "COMPLETE">> } )
      => ( /\ type' = "UPDATE"
           /\ pc' = "createChangeSet"
           /\ calls' = <<"DescribeStacks">>
           /\ waits' = waits
           /\ reason' = reason
           /\ result' = Pending ) ]_vars

C4_Witness ==
  /\ pc = "createChangeSet"
  /\ type = "UPDATE"
  /\ stack = Stack(<<"UPDATE", "ROLLBACK", "COMPLETE">>)
  /\ waits = {}

\* C5: a stack classified with a status that is not CREATE_FAILED and ends
\* in neither _COMPLETE nor _IN_PROGRESS ends the run with
\* InvalidStatusBeforeUpdateStackError carrying that stack, and no mutating
\* command has been sent.
C5_InvalidStatusThrows ==
  [][ ( /\ Classified
        /\ stack'.exists
        /\ stack'.StackStatus # <<"CREATE", "FAILED">>
        /\ ~EndsWith(stack'.StackStatus, <<"COMPLETE">>)
        /\ ~EndsWith(stack'.StackStatus, InProgress) )
      => ( /\ pc' = "done"
           /\ result' = InvalidStatusBeforeUpdateStackError(stack')
           /\ type' = ""
           /\ NothingMutated' ) ]_vars

C5_Witness ==
  /\ pc = "done"
  /\ result =
       InvalidStatusBeforeUpdateStackError(Stack(<<"DELETE", "FAILED">>))
  /\ calls = <<"DescribeStacks">>

\* C6: executeChangeSet is sent only when a describeChangeSet output of the
\* run's change set had ExecutionStatus AVAILABLE and the prompt answered
\* yes; it is sent at most once, after the one createChangeSet.
C6_ExecuteOnlyConfirmed ==
  (pc = "executeChangeSet" \/ Count("ExecuteChangeSet") > 0)
    => ( /\ available
         /\ answer = "yes"
         /\ Count("CreateChangeSet") = 1
         /\ Count("ExecuteChangeSet") <= 1 )

C6_Witness ==
  /\ Count("ExecuteChangeSet") = 1
  /\ available
  /\ answer = "yes"
  /\ pc = "waitGetStack"

\* C7: once the prompt has answered no, the run is at the deleteChangeSet
\* await or has ended there: it ended by returning, with exactly one
\* deleteChangeSet sent; executeChangeSet is never sent and no EXECUTING
\* wait is started.
C7_NoDeletesChangeSet ==
  answer = "no"
    => ( /\ pc \in {"deleteChangeSet", "done"}
         /\ pc = "done"
              => result = Returned /\ Count("DeleteChangeSet") = 1
         /\ Count("ExecuteChangeSet") = 0
         /\ "EXECUTING" \notin waits )

C7_Witness ==
  /\ answer = "no"
  /\ pc = "done"
  /\ result = Returned
  /\ calls[Len(calls)] = "DeleteChangeSet"

\* the change set left creation with an ExecutionStatus that is not
\* AVAILABLE: changeSet is the output the do-while loop ended with
LeftCreationNotAvailable ==
  /\ pc \in {"deleteChangeSet", "done"}
  /\ changeSet.Status \notin {"undefined", "CREATE_IN_PROGRESS"}
  /\ changeSet.ExecutionStatus # "AVAILABLE"

C9_NotAvailableThrows ==
  ( /\ LeftCreationNotAvailable
    /\ ~( /\ changeSet.Status = "FAILED"
          /\ changeSet.StatusReason = NoChangesReason ) )
    => ( /\ pc = "done"
         /\ result = ChangeSetNotAvailableError(changeSet)
         /\ answer = "none"
         /\ Count("ExecuteChangeSet") = 0
         /\ Count("DeleteChangeSet") = 0 )

C9_Witness ==
  /\ pc = "done"
  /\ result.kind = "ChangeSetNotAvailableError"
  /\ result.changeSetDetails.Status = "FAILED"
  /\ result.changeSetDetails.ExecutionStatus = "OBSOLETE"
  /\ result.changeSetDetails.StatusReason = "Template error"

\* C10: when the run has ended after the EXECUTING wait, it returned if and
\* only if the stack the wait returned exists with status <type>_COMPLETE
\* for the type classification chose; for a stack with any other status it
\* ended with InvalidCompleteStatusStackError carrying that stack and that
\* type.
C10_ExecutedStatus ==
  (pc = "done" /\ "EXECUTING" \in waits)
    => ( /\ type \in {"CREATE", "UPDATE"}
         /\ result = Returned
              <=> (stack.exists /\ stack.StackStatus = <<type, "COMPLETE">>)
         /\ (stack.exists /\ stack.StackStatus # <<type, "COMPLETE">>)
              => result = InvalidCompleteStatusStackError(stack, type) )

C10_Witness ==
  /\ pc = "done"
  /\ "EXECUTING" \in waits
  /\ type = "CREATE"
  /\ stack = Stack(<<"UPDATE", "COMPLETE">>)
  /\ result.kind = "InvalidCompleteStatusStackError"
  /\ result.type = "CREATE"

\* the Changes of the pages ps, one after the other
RECURSIVE Concat(_)
Concat(ps) ==
  IF ps = <<>> THEN <<>>
  ELSE Concat(SubSeq(ps, 1, Len(ps) - 1)) \o ps[Len(ps)].Changes

\* C11: once the change set is available, the change list is the
\* concatenation, in page order, of the Changes of the describeChangeSet
\* outputs read so far; every page but the last carried a NextToken, and
\* the orchestrator is fetching the next page exactly when the last one
\* read carried a NextToken; the list given to the waiter during the
\* EXECUTING wait is that concatenation.
C11_ChangesConcatenated ==
  pages # <<>>
    => ( /\ changes = Concat(pages)
         /\ \A i \in 1..(Len(pages) - 1) : pages[i].NextToken # ""
         /\ pc = "nextPage" <=> pages[Len(pages)].NextToken # ""
         /\ report.kind # "none" => report.changes = Concat(pages) )

C11_Witness ==
  /\ pc = "progress"
  /\ reason = "EXECUTING"
  /\ Len(pages) = 3
  /\ report.changes = <<"c2", "c1", "c2">>

\* a waitUntilDone call is suspended at one of its awaits
InWait == pc \in {"waitGetStack", "progress", "complete"}

\* C12: in a wait with a waiter, each poll is followed by one
\* waiter.progress call carrying the stack just polled; after it the wait
\* polls again exactly when that stack exists and its status ends with
\* _IN_PROGRESS, and otherwise calls waiter.complete, once, with the stack
\* of the last progress call, which is the stack the wait returns; without
\* a waiter the wait polls again under the same condition.
C12_WaitReports ==
  [][ /\ (waiter /\ pc = "waitGetStack")
        => /\ pc' = "progress"
           /\ report'.kind = "progress"
           /\ report'.stack = stack'
           /\ ticks'.polls = ticks.polls + 1
           /\ ticks'.progress = ticks'.polls
           /\ ticks'.complete = 0
      /\ (waiter /\ pc = "progress")
        => IF stack.exists /\ EndsWith(stack.StackStatus, <<"IN", "PROGRESS">>)
           THEN pc' = "waitGetStack" /\ ticks' = ticks
           ELSE /\ pc' = "complete"
                /\ report'.kind = "complete"
                /\ report'.stack = report.stack
                /\ ticks'.progress = ticks.progress
                /\ ticks'.complete = 1
      /\ (waiter /\ pc = "complete")
        => /\ ~InWait'
           /\ stack' = report.stack
           /\ ticks' = ticks
      /\ (waiter /\ ~InWait' /\ waits' # {})
        => /\ ticks'.complete = 1
           /\ ticks'.progress = ticks'.polls
      /\ (~waiter /\ pc = "waitGetStack")
        => /\ report' = NoReport
           /\ InWait' <=> /\ stack'.exists
                          /\ EndsWith(stack'.StackStatus, <<"IN", "PROGRESS">>)
    ]_vars

C12_Witness ==
  /\ waiter
  /\ pc = "complete"
  /\ ticks = [polls |-> 3, progress |-> 3, complete |-> 1]
  /\ report.kind = "complete"
  /\ ~report.stack.exists

C14_MutatingOnce ==
  \A c \in Mutating : Count(c) <= 1

C14_Witness ==
  /\ pc = "done"
  /\ "IN_PROGRESS_EXISTING" \in waits
  /\ stackPolls >= MaxStackPolls
  /\ Count("DeleteStack") = 1
  /\ Count("CreateChangeSet") = 1
  /\ Count("ExecuteChangeSet") = 1

\* C15 as stated: when createChangeSet is about to be sent, the stack
\* status observed last does not end with _IN_PROGRESS.
C15_Original ==
  pc = "createChangeSet"
    => ~(stack.exists /\ EndsWith(stack.StackStatus, InProgress))

\* C15: when createChangeSet is about to be sent, the stack status observed
\* last does not end with _IN_PROGRESS unless it is REVIEW_IN_PROGRESS,
\* for which the change set type is CREATE; the type is never UPDATE after
\* an in-progress status.
C15_NotWhileInProgress ==
  (pc = "createChangeSet" /\ stack.exists
     /\ EndsWith(stack.StackStatus, InProgress))
    => /\ stack.StackStatus = <<"REVIEW", "IN", "PROGRESS">>
       /\ type = "CREATE"

C15_Witness ==
  /\ pc = "createChangeSet"
  /\ "IN_PROGRESS_EXISTING" \in waits
  /\ type = "UPDATE"
  /\ stack = Stack(<<"UPDATE", "ROLLBACK", "COMPLETE">>)

\* this step sends describeStacks (from getChangeSetType or from a wait)
DescribesStack == pc \in {"getStack", "waitGetStack"}

\* C16: when describeStacks is rejected with the "does not exist"
\* ValidationError, deployStack is not rejected with it: the stack observed
\* is the absent stack; in getChangeSetType the answer is CREATE and
\* createChangeSet is next; in a wait the absent stack is the last one
\* polled, given to the waiter's progress and complete calls when there is
\* a waiter, and the wait ends.
C16_NotFoundIsAbsent ==
  [][ /\ (DescribesStack /\ replied' = StackNotFound)
        => /\ result'.kind # "rejected"
           /\ stack' = NullStack
           /\ pc = "getStack" => (type' = "CREATE" /\ pc' = "createChangeSet")
           /\ pc = "waitGetStack"
                => IF waiter
                   THEN pc' = "progress" /\ report'.stack = NullStack
                   ELSE ~InWait'
      /\ (pc = "progress" /\ replied = StackNotFound)
        => /\ pc' = "complete"
           /\ report'.stack = NullStack
           /\ stack' = NullStack
    ]_vars

C16_Witness ==
  /\ waiter
  /\ pc = "complete"
  /\ reason = "DELETE_EXISTING"
  /\ replied = StackNotFound
  /\ report.stack = NullStack
  /\ result = Pending

\* this step sends a remote command
SendsCommand ==
  pc \in {"getStack", "waitGetStack", "deleteStack", "createChangeSet",
          "describeChangeSet", "nextPage", "deleteChangeSet",
          "executeChangeSet"}

\* C17: when a remote call is rejected with an error, other than
\* describeStacks with the "does not exist" ValidationError, deployStack is
\* rejected with that error and is over, the rejected call being the last
\* one sent: nothing is sent once deployStack is rejected.
C17_FailurePropagates ==
  [][ /\ ( /\ SendsCommand
           /\ replied' # NoError
           /\ ~(DescribesStack /\ replied' = StackNotFound) )
        => /\ result' = Rejected(replied')
           /\ pc' = "done"
           /\ inflight' = {}
           /\ Len(calls') <= Len(calls) + 1
      /\ result.kind = "rejected" => calls' = calls
    ]_vars

C17_Witness ==
  /\ result = Rejected(StackNotFound)
  /\ pc = "done"
  /\ Count("CreateChangeSet") = 1
  /\ calls[Len(calls)] = "DescribeChangeSet"
  /\ Count("DeleteChangeSet") = 0

\* C18: in runs where no remote call and no callback fails, deployStack
\* ends by returning or by throwing one of the three typed errors, also
\* when the stack is absent at the end of the EXECUTING wait.
C18_TypedOutcome ==
  pc = "done"
    => result.kind \in {"returned", "InvalidStatusBeforeUpdateStackError",
                        "InvalidCompleteStatusStackError",
                        "ChangeSetNotAvailableError"}

\* how many times the change set was executed or deleted
Consumed == Count("ExecuteChangeSet") + Count("DeleteChangeSet")

\* C19 as stated: when deployStack has ended, by returning or with a typed
\* error, after createChangeSet was sent, exactly one of executeChangeSet
\* and deleteChangeSet was sent.
C19_Original ==
  ( /\ pc = "done"
    /\ Count("CreateChangeSet") = 1
    /\ result.kind \in {"returned", "InvalidStatusBeforeUpdateStackError",
                        "InvalidCompleteStatusStackError",
                        "ChangeSetNotAvailableError"} )
    => Consumed = 1

\* C19: executeChangeSet and deleteChangeSet are never both sent; when
\* deployStack has ended after createChangeSet was sent, exactly one of
\* them was sent if it returned or threw a typed error other than
\* ChangeSetNotAvailableError, and neither was sent if it threw
\* ChangeSetNotAvailableError.
C19_ChangeSetConsumed ==
  /\ Consumed <= 1
  /\ ( /\ pc = "done"
       /\ Count("CreateChangeSet") = 1
       /\ result.kind \in {"returned", "InvalidStatusBeforeUpdateStackError",
                           "InvalidCompleteStatusStackError"} )
       => Consumed = 1
  /\ result.kind = "ChangeSetNotAvailableError"
       => (pc = "done" /\ Count("CreateChangeSet") = 1 /\ Consumed = 0)

C19_Witness ==
  /\ pc = "done"
  /\ result.kind = "InvalidCompleteStatusStackError"
  /\ result.type = "UPDATE"
  /\ Count("CreateChangeSet") = 1
  /\ Count("ExecuteChangeSet") = 1
  /\ Count("DeleteChangeSet") = 0

\* C20: prompt is called at most once, with the message "Deploy?"; when it
\* is called the change set was available, the last page read carried no
\* NextToken, the list reported to the logger is the whole list collected
\* from the pages, and executeChangeSet has not been sent, which is sent
\* only after the prompt answered yes; it is not called when the change
\* set left creation not available.
C20_PromptOnce ==
  /\ Len(prompts) <= 1
  /\ \A i \in 1..Len(prompts) : prompts[i] = "Deploy?"
  /\ prompts # <<>>
       => /\ available
          /\ pages # <<>>
          /\ pages[Len(pages)].NextToken = ""
          /\ reported = Concat(pages)
  /\ pc = "prompt" => (prompts # <<>> /\ Count("ExecuteChangeSet") = 0)
  /\ Count("ExecuteChangeSet") > 0 => (prompts # <<>> /\ answer = "yes")
  /\ LeftCreationNotAvailable => prompts = <<>>

C20_Witness ==
  /\ pc = "done"
  /\ prompts = <<"Deploy?">>
  /\ Len(pages) = 2
  /\ reported = <<"c1", "c2">>
  /\ Count("ExecuteChangeSet") = 1

\* C21: in a run whose first log entry is "Stack does not exist, creating
\* new..." and whose only wait is the EXECUTING one, when that wait ends
\* with the stack CREATE_COMPLETE the type is CREATE, the prompt answered
\* yes on an available change set, the commands sent are exactly
\* describeStacks, createChangeSet, describeChangeSet (polls),
\* executeChangeSet, describeStacks (polls), deployStack returns, and what
\* it logs last is the heading "Outputs:" followed by one entry per output
\* of that stack, in order (nothing when the stack has no outputs).
C21_FreshDeploy ==
  [][ ( /\ WaitEnds("EXECUTING")
        /\ logs[1] = Entry("Stack does not exist, creating new...", <<>>)
        /\ waits = {"EXECUTING"}
        /\ stack'.exists
        /\ stack'.StackStatus = <<"CREATE", "COMPLETE">> )
        => /\ type = "CREATE"
           /\ available
           /\ answer = "yes"
           /\ calls' = <<"DescribeStacks", "CreateChangeSet",
                         "DescribeChangeSet", "ExecuteChangeSet",
                         "DescribeStacks">>
           /\ pc' = "done"
           /\ result' = Returned
           /\ logs' = logs \o
                (IF stack'.Outputs \in {NoOutputs, <<>>}
                 THEN <<>>
                 ELSE <<Entry("Outputs:", <<>>)>> \o
                      [i \in 1..Len(stack'.Outputs) |->
                         Entry("  %O: %O", stack'.Outputs[i])])
    ]_vars

C21_Witness ==
  /\ pc = "done"
  /\ result = Returned
  /\ type = "CREATE"
  /\ waits = {"EXECUTING"}
  /\ logs[1] = Entry("Stack does not exist, creating new...", <<>>)
  /\ reported = <<"c1", "c2">>
  /\ stack = StackWith(<<"CREATE", "COMPLETE">>,
                       << <<"k1", "v1">>, <<"k2", "v2">> >>)
  /\ logs[Len(logs)] = Entry("  %O: %O", <<"k2", "v2">>)

\* C22: while createChangeSet is in flight its ChangeSetType is the type
\* getChangeSetType returned and its Capabilities is undefined when the
\* capabilities option was the empty list, and is the option as given
\* otherwise (undefined or a non-empty list); it is never the empty list.
C22_CapabilitiesNormalized ==
  pc = "createChangeSet"
    => /\ request.ChangeSetType = type
       /\ request.Capabilities # <<>>
       /\ request.capabilities = <<>>
            => request.Capabilities = NoCapabilities
       /\ request.capabilities # <<>>
            => request.Capabilities = request.capabilities

C22_Witness ==
  /\ pc = "createChangeSet"
  /\ "DELETE_EXISTING" \in waits
  /\ request.capabilities = <<>>
  /\ request.Capabilities = NoCapabilities

\* C23: a waiter callback is awaited only inside a wait and carries one of
\* the three reasons: DELETE_EXISTING only when deleteStack was the last
\* command before the polls and no type is decided; IN_PROGRESS_EXISTING
\* only when nothing but describeStacks was sent and no type is decided;
\* EXECUTING only when executeChangeSet was the last command before the
\* polls.
C23_ReasonMatchesPhase ==
  /\ report.kind # "none" <=> pc \in {"progress", "complete"}
  /\ report.kind # "none"
       => /\ report.reason
               \in {"DELETE_EXISTING", "IN_PROGRESS_EXISTING", "EXECUTING"}
          /\ report.reason = "DELETE_EXISTING"
               => /\ calls = <<"DescribeStacks", "DeleteStack",
                               "DescribeStacks">>
                  /\ type = ""
          /\ report.reason = "IN_PROGRESS_EXISTING"
               => /\ calls = <<"DescribeStacks">>
                  /\ type = ""
          /\ report.reason = "EXECUTING"
               => /\ Len(calls) >= 5
                  /\ calls[Len(calls) - 1] = "ExecuteChangeSet"
                  /\ calls[Len(calls)] = "DescribeStacks"
                  /\ Count("ExecuteChangeSet") = 1

C23_Witness ==
  /\ pc = "complete"
  /\ report.reason = "EXECUTING"
  /\ waits = {"IN_PROGRESS_EXISTING", "DELETE_EXISTING", "EXECUTING"}

\* C24: while the dead stack is being removed (deleteStack was the last
\* command before the polls), the reason a waiter callback is given is
\* DELETING_EXISTING.
C24_DeletingExisting ==
  ( /\ report.kind # "none"
    /\ Count("DeleteStack") = 1
    /\ Count("CreateChangeSet") = 0 )
    => report.reason = "DELETING_EXISTING"

\* C25: the context of a waiter callback has the stack name of the
\* deployment and the stack the last poll returned; its changes are
\* undefined in the DELETE_EXISTING and IN_PROGRESS_EXISTING waits and are
\* the change list collected and reported in the EXECUTING wait.
C25_ContextContents ==
  report.kind # "none"
    => /\ report.stackName = stackName
       /\ report.stack = stack
       /\ report.reason \in {"DELETE_EXISTING", "IN_PROGRESS_EXISTING"}
            => report.changes = Undefined
       /\ report.reason = "EXECUTING"
            => (report.changes = reported /\ reported # Undefined)

C25_Witness ==
  /\ pc = "progress"
  /\ report.reason = "DELETE_EXISTING"
  /\ report.changes = Undefined
  /\ report.stack = Stack(<<"DELETE", "IN", "PROGRESS">>)
  /\ ticks.polls = 2

\* C26: when the default prompt was used, without a TTY it answered yes
\* having read nothing and written nothing; with a TTY it read one key,
\* wrote the message followed by " [Y/n] " and then a newline, and
\* answered yes exactly when the key was "y".
C26_DefaultPrompt ==
  terminal.used
    => IF ~terminal.isTTY
       THEN /\ answer = "yes"
            /\ terminal.read = <<>>
            /\ terminal.written = <<>>
       ELSE /\ Len(terminal.read) = 1
            /\ answer = "yes" <=> terminal.read = <<"y">>
            /\ answer = "no" <=> terminal.read # <<"y">>
            /\ terminal.written = << <<"Deploy?", " [Y/n] ">>, <<"\n">> >>

C26_Witness ==
  /\ terminal.used
  /\ terminal.isTTY
  /\ terminal.read = <<"Y">>
  /\ answer = "no"
  /\ pc = "deleteChangeSet"

\* C27: a wait that polls a stack with a status ending in _IN_PROGRESS
\* goes on waiting, and the creation poll that reads CREATE_IN_PROGRESS
\* goes on polling, whatever the number of polls so far and without
\* settling the promise; and when every awaited operation settles, the
\* stack stops reporting in-progress statuses, the change set leaves
\* CREATE_IN_PROGRESS and the pages end, deployStack eventually returns or
\* throws.
C27_RunsUntilResolved ==
  /\ [][ /\ ( /\ pc \in {"waitGetStack", "progress"}
              /\ stack'.exists
              /\ EndsWith(stack'.StackStatus, InProgress) )
            => (InWait' /\ result' = Pending)
         /\ (pc = "describeChangeSet" /\ changeSet'.Status = "CREATE_IN_PROGRESS")
            => (pc' = "describeChangeSet" /\ result' = Pending)
       ]_vars
  /\ <>(pc = "done")

C27_Witness ==
  /\ pc = "done"
  /\ result = Returned
  /\ waits = {"IN_PROGRESS_EXISTING", "EXECUTING"}
  /\ stackPolls = MaxStackPolls
  /\ changeSetPolls >= MaxChangeSetPolls
  /\ Len(pages) >= 2

\* C28: createChangeSet is followed by a describeChangeSet poll; a poll
\* that reads CREATE_IN_PROGRESS is followed by another poll with nothing
\* decided (no log entry, no change list, no prompt, the promise not
\* settled); a poll that reads any other Status ends the polling, and the
\* branch taken (delete, typed error, prompt or next page) is taken on that
\* response.
C28_DecidesAfterCreation ==
  [][ /\ pc = "createChangeSet" => pc' = "describeChangeSet"
      /\ pc = "describeChangeSet"
           => /\ calls'[Len(calls')] = "DescribeChangeSet"
              /\ changeSet'.Status # "undefined"
              /\ IF changeSet'.Status = "CREATE_IN_PROGRESS"
                 THEN /\ pc' = "describeChangeSet"
                      /\ result' = Pending
                      /\ logs' = logs
                      /\ changes' = Undefined
                      /\ prompts' = <<>>
                 ELSE /\ pc' \in {"deleteChangeSet", "done", "prompt",
                                  "nextPage"}
                      /\ pc' = "done"
                           => result' = ChangeSetNotAvailableError(changeSet')
                      /\ pc' \in {"prompt", "nextPage"}
                           => changes' = changeSet'.Changes
    ]_vars

C28_Witness ==
  /\ pc = "prompt"
  /\ changeSetPolls = MaxChangeSetPolls
  /\ changeSet.Status = "CREATE_COMPLETE"
  /\ changeSet.ExecutionStatus = "AVAILABLE"
  /\ Len(pages) = 1

\* this step sends command c
Sends(c) == Len(calls') = Len(calls) + 1 /\ calls'[Len(calls')] = c

\* what is logged about each mutating command
LogFor(c) ==
  CASE c = "DeleteStack" -> {"Stack failed to create, replacing..."}
    [] c = "CreateChangeSet" ->
         {"Created change set %O", "Stack does not exist, creating new...",
          "Stack was deleted, creating new...",
          "Stack exists with status %O, updating existing..."}
    [] c = "ExecuteChangeSet" -> {"Executing change set..."}
    [] c = "DeleteChangeSet" -> {"Deleting change set..."}

\* C29 as stated: whenever a mutating command is sent, whether it is then
\* fulfilled or rejected, an entry about it is logged at that point: it is
\* the newest entry when the command is sent, or it is logged in the step
\* that sends it.
C29_Original ==
  [][ \A c \in Mutating :
        Sends(c)
          => \/ logs # <<>> /\ logs[Len(logs)].format \in LogFor(c)
             \/ \E i \in (Len(logs) + 1)..Len(logs') :
                  logs'[i].format \in LogFor(c)
    ]_vars

\* C29: when deleteStack, executeChangeSet or deleteChangeSet is sent, the
\* newest log entry is the one about it, whether the command is then
\* fulfilled or rejected; createChangeSet is logged when it is fulfilled
\* ("Created change set", then the review link) and not when it is
\* rejected.
C29_MutatingLogged ==
  [][ /\ \A c \in {"DeleteStack", "ExecuteChangeSet", "DeleteChangeSet"} :
           Sends(c)
             => /\ logs # <<>>
                /\ logs[Len(logs)].format \in LogFor(c)
      /\ Sends("CreateChangeSet")
           => IF replied' = NoError
              THEN logs' = logs \o <<Entry("Created change set %O", <<>>),
                                     Entry("Review at %s", <<>>)>>
              ELSE logs' = logs
    ]_vars

C29_Witness ==
  /\ pc = "done"
  /\ result = Rejected(StackNotFound)
  /\ calls[Len(calls)] = "DeleteChangeSet"
  /\ answer = "no"
  /\ logs[Len(logs)] = Entry("Deleting change set...", <<>>)

\* C30: when the DELETE_EXISTING wait ends with the stack absent, as when
\* it ends with DELETE_COMPLETE, getChangeSetType returns CREATE: nothing
\* is thrown, createChangeSet is sent next with type CREATE, and with a
\* waiter the complete callback that just resolved had that stack (the
\* absent one) as its snapshot.
C30_AbsentAfterDelete ==
  [][ ( /\ WaitEnds("DELETE_EXISTING")
        /\ \/ ~stack'.exists
           \/ stack'.StackStatus = <<"DELETE", "COMPLETE">> )
        => /\ result' = Pending
           /\ type' = "CREATE"
           /\ pc' = "createChangeSet"
           /\ request'.ChangeSetType = "CREATE"
           /\ waiter => /\ report.kind = "complete"
                        /\ report.stack = stack'
                        /\ ~stack'.exists => report.stack = NullStack
    ]_vars

C30_Witness ==
  /\ waiter
  /\ pc = "createChangeSet"
  /\ waits = {"DELETE_EXISTING"}
  /\ stack = NullStack
  /\ replied = StackNotFound
  /\ type = "CREATE"
  /\ result = Pending

\* ------------------------------------------------ the command line program
\* positional arguments on the command line
MaxArgs == 2
\* characters of one positional argument
MaxArgLen == 3

\* the variables of deployStack
deployVars == <<pc, waiter, stack, type, reason, changeSet, changes, answer,
                report, calls, stackPolls, changeSetPolls, waits, available,
                reported, prompts, replied, inflight, ticks, terminal,
                request, logs, pages, result>>

\* deployStack has not been called (cli.ts calls it at line 167, after the
\* options are read)
DeployNotCalled ==
  /\ pc = "notCalled"
  /\ waiter = FALSE
  /\ stack = NoStack
  /\ type = ""
  /\ reason = ""
  /\ changeSet = NoChangeSet
  /\ changes = Undefined
  /\ answer = "none"
  /\ calls = <<>>
  /\ stackPolls = 0
  /\ changeSetPolls = 0
  /\ waits = {}
  /\ available = FALSE
  /\ reported = Undefined
  /\ prompts = <<>>
  /\ replied = NoError
  /\ inflight = {}
  /\ ticks = NoTicks
  /\ terminal = NoTerminal
  /\ request = NoRequest
  /\ logs = <<>>
  /\ pages = <<>>
  /\ report = NoReport
  /\ result = Pending

\* the characters \w matches, of which the arguments here use one
WordChars == { "N" }

\* the characters of the arguments: a word character, "=", and a character
\* that is neither
Chars == WordChars \cup { "=", "-" }

\* a positional argument is a string, here a sequence of characters, so
\* that the match of line 121 is computed
ArgStrings == UNION { [1..n -> Chars] : n \in 1..MaxArgLen }

\* options[argsSymbol] as parseOptions leaves it: any list of strings
\* (parseOptions, lines 150-182, puts there every argument that is neither
\* an option nor an option's value, and everything after a bare "--")
ArgLists == UNION { [1..n -> ArgStrings] : n \in 0..MaxArgs }

\* String.match found nothing (null)
NoMatch == [matched |-> FALSE, key |-> <<>>, value |-> <<>>]

\* line 121: arg.match(/^(\w+)=(.+)$/); one or more word characters from
\* the start, then "=", then one or more characters up to the end.  The
\* "=" is the first one of arg, since no word character is "=".
Match(arg) ==
  LET at == { i \in 2..(Len(arg) - 1) :
                /\ arg[i] = "="
                /\ \A j \in 1..(i - 1) : arg[j] \in WordChars }
  IN  IF at = {}
      THEN NoMatch
      ELSE LET i == CHOOSE k \in at : TRUE
           IN  [matched |-> TRUE,
                key |-> SubSeq(arg, 1, i - 1),
                value |-> SubSeq(arg, i + 1, Len(arg))]

\* main reaches line 117 with the options parsed and the named options
\* read (and deleted, getOption line 190): what is left is the positional
\* arguments and the option names main does not know
CliInit ==
  /\ DeployNotCalled
  /\ LogNotCreated
  /\ cliPc = "while"
  /\ args \in ArgLists
  /\ parameters = <<>>
  /\ optionKeys \in { {}, { "unknown" } }
  /\ cliError = ""

\* line 119: while (args.length)
While ==
  /\ cliPc = "while"
  /\ cliPc' = IF Len(args) # 0 THEN "body" ELSE "check"
  /\ UNCHANGED <<args, parameters, optionKeys, cliError>>
  /\ UNCHANGED <<deployVars, logVars>>

\* lines 120-128: the body of the loop.  args.shift() is inside the if.
Body ==
  /\ cliPc = "body"
  /\ LET arg == args[1]
         match == Match(arg)
     IN  IF match.matched
         THEN /\ args' = Tail(args)
              /\ parameters' =
                   Append(parameters, [ParameterKey |-> match.key,
                                       ParameterValue |-> match.value])
         ELSE UNCHANGED <<args, parameters>>
  /\ cliPc' = "while"
  /\ UNCHANGED <<optionKeys, cliError>>
  /\ UNCHANGED <<deployVars, logVars>>

\* line 131 and part_002 lines 220-230: checkForUnknownOptions(options)
CheckForUnknownOptions ==
  /\ cliPc = "check"
  /\ IF optionKeys # {}
     THEN cliPc' = "thrown" /\ cliError' = "Unknown option(s): "
     ELSE IF Len(args) # 0
          THEN cliPc' = "thrown" /\ cliError' = "Unhandled args: "
          ELSE cliPc' = "checked" /\ cliError' = cliError
  /\ UNCHANGED <<args, parameters, optionKeys>>
  /\ UNCHANGED <<deployVars, logVars>>

NextCli ==
  \/ While
  \/ Body
  \/ CheckForUnknownOptions

\* main from line 117 to line 131; the loop is synchronous code, which the
\* engine keeps running
SpecCli == CliInit /\ [][NextCli]_vars /\ WF_vars(NextCli)

\* main has left the parameter loop and checkForUnknownOptions is over
CliOver == cliPc \in { "checked", "thrown" }

\* C31: the template-parameter loop terminates for every list of positional
\* arguments: main gets past the loop, and checkForUnknownOptions returns
\* or throws its OptionError
C31_LoopTerminates == <>CliOver

\* ------------------------------------------------- the event log reporter
\* the clock stops at MaxTime
MaxTime == 3
\* the stack has at most MaxEvents events
MaxEvents == 4
\* events in one page of DescribeStackEvents
PageSize == 2

Max(a, b) == IF a > b THEN a ELSE b

\* event.Timestamp of the event at place e of the stack's history
Timestamp(e) == stackEvents[e]

\* time passes
Tick ==
  /\ now < MaxTime
  /\ now' = now + 1
  /\ UNCHANGED <<logPc, created, stackEvents, lastEventPrinted,
                 firstEventRead, lastEventRead, nextEventToken, caller,
                 polled, printed, lastLine>>
  /\ UNCHANGED <<deployVars, cliVars>>

\* the stack gets an event, stamped with the time it is
Emit ==
  /\ Len(stackEvents) < MaxEvents
  /\ stackEvents' = Append(stackEvents, now)
  /\ UNCHANGED <<logPc, now, created, lastEventPrinted, firstEventRead,
                 lastEventRead, nextEventToken, caller, polled, printed,
                 lastLine>>
  /\ UNCHANGED <<deployVars, cliVars>>

\* lines 4-17: createEventLogWaiter(); let lastEventPrinted = new Date()
CreateEventLogWaiter ==
  /\ logPc = "notCreated"
  /\ lastEventPrinted' = now
  /\ created' = now
  /\ logPc' = "idle"
  /\ UNCHANGED <<now, stackEvents, firstEventRead, lastEventRead,
                 nextEventToken, caller, polled, printed, lastLine>>
  /\ UNCHANGED <<deployVars, cliVars>>

\* lines 19-61: printNewEvents is called; its locals are undefined, the
\* column widths are computed (they pad the lines and choose none), and
\* the paginator asks for the first page, with no token
PrintNewEvents ==
  /\ polled' = Len(stackEvents)
  /\ firstEventRead' = 0
  /\ lastEventRead' = 0
  /\ nextEventToken' = 0
  /\ logPc' = "describeStackEvents"
  /\ UNCHANGED <<now, created, stackEvents, lastEventPrinted, printed,
                 lastLine>>
  /\ UNCHANGED <<deployVars, cliVars>>

\* lines 10-12: waiter.progress
Progress ==
  /\ logPc = "idle"
  /\ caller' = "progress"
  /\ PrintNewEvents

\* lines 13-16: waiter.complete
Complete ==
  /\ logPc = "idle"
  /\ caller' = "complete"
  /\ PrintNewEvents

\* the page DescribeStackEvents answers with: the events newest first,
\* from the newest one when no token is sent and else from the event the
\* token names, and the token of the page after it (0 for none)
EventsPage ==
  LET hi == IF nextEventToken = 0 THEN Len(stackEvents) ELSE nextEventToken
      lo == Max(1, hi - PageSize + 1)
  IN  [StackEvents |-> [k \in 1..(hi - lo + 1) |-> hi - k + 1],
       NextToken |-> IF lo > 1 THEN lo - 1 ELSE 0]

\* lines 70-72: events.filter(event => event.Timestamp > lastEventPrinted)
NewEvents(events) ==
  SelectSeq(events, LAMBDA e : Timestamp(e) > lastEventPrinted)

\* lines 58-92: one page arrives and is printed; the loop goes on to the
\* next page, or is left (line 86, or no page is left) and lines 90-92 run;
\* complete then writes its own line (line 15)
DescribeStackEvents ==
  /\ logPc = "describeStackEvents"
  /\ LET response == EventsPage
         events == response.StackEvents
         first == IF events # <<>> /\ firstEventRead = 0
                  THEN Timestamp(events[1])
                  ELSE firstEventRead
         last == IF events # <<>>
                 THEN Timestamp(events[Len(events)])
                 ELSE lastEventRead
         newEvents == IF events # <<>> THEN NewEvents(events) ELSE <<>>
         break == last # 0 /\ last <= lastEventPrinted
     IN  /\ printed' = printed \o newEvents
         /\ IF break \/ response.NextToken = 0
            THEN /\ lastEventPrinted' =
                      IF first # 0 THEN first ELSE lastEventPrinted
                 /\ firstEventRead' = 0
                 /\ lastEventRead' = 0
                 /\ nextEventToken' = 0
                 /\ lastLine' = IF caller = "complete"
                                THEN "Waiting for %s complete"
                                ELSE IF newEvents # <<>> THEN "event"
                                     ELSE lastLine
                 /\ logPc' = "idle"
            ELSE /\ firstEventRead' = first
                 /\ lastEventRead' = last
                 /\ nextEventToken' = response.NextToken
                 /\ lastLine' = IF newEvents # <<>> THEN "event" ELSE lastLine
                 /\ UNCHANGED <<lastEventPrinted, logPc>>
  /\ UNCHANGED <<now, created, stackEvents, caller, polled>>
  /\ UNCHANGED <<deployVars, cliVars>>

\* the stack and the clock before the reporter is made
LogInit ==
  /\ DeployNotCalled
  /\ CliNotStarted
  /\ LogNotCreated

NextLog ==
  \/ Tick
  \/ Emit
  \/ CreateEventLogWaiter
  \/ Progress
  \/ Complete
  \/ DescribeStackEvents

\* one reporter, its callbacks called one after the other (deployStack
\* awaits each), while the stack gets events
SpecLog == LogInit /\ [][NextLog]_vars

\* how many lines were printed for event e
Times(e) == Cardinality({ i \in 1..Len(printed) : printed[i] = e })

\* C32: every event later than the reporter's creation is printed exactly
\* once: no event is ever printed twice, and once a progress or complete
\* call is over, every such event the stack had when the call was made has
\* been printed, the events stamped like the newest event of an earlier
\* poll included
C32_PrintedExactlyOnce ==
  /\ \A e \in 1..Len(stackEvents) : Times(e) <= 1
  /\ logPc = "idle" =>
       \A e \in 1..polled : Timestamp(e) > created => Times(e) = 1

====
